---- MODULE Spec2Model ----
(***************************************************************************)
(* Write-Audit-Publish append of src/wap_etl.py (wap_append) against an    *)
(* Iceberg table with branches.  Every spark.sql / read / write statement  *)
(* of wap_append is one atomic catalog call and one action of the model;   *)
(* other writers and other wap_append calls interleave between them.       *)
(***************************************************************************)
EXTENDS Integers, Sequences, FiniteSets, TLC

VARIABLES
    prop,     \* prop[t]: table property write.wap.enabled is set on table t
    refs,     \* refs[t]: the branches of table t, branch name -> version
    nextId,   \* number of snapshots committed so far (snapshot ids are 1..nextId)
    repeats,  \* number of times a caller has called wap_append again
    run       \* run[r]: the locals and position of the wap_append call in slot r

vars == <<prop, refs, nextId, repeats, run>>

----------------------------------------------------------------------------
(* Bounds of the model *)

MaxSnap == 2        \* snapshots committed in one behaviour
MaxRepeats == 1     \* times the caller calls wap_append again after a call ended
MaxRows == 1        \* rows of one payload

----------------------------------------------------------------------------
(* Names.  A dotted SQL identifier is the sequence of its parts.           *)

\* The Iceberg tables that exist in the catalog: the table of main()
\* (glue_catalog.athena_iceberg_test.my_iceberg_table) and a table of the
\* same name in another database of the same catalog.
Tables == { <<"glue_catalog", "athena_iceberg_test", "my_iceberg_table">>,
            <<"glue_catalog", "other_db", "my_iceberg_table">> }

\* f"{prefix}_{uuid.uuid4().hex[:6]}": a name drawn at random from the
\* finitely many names of that shape.
generate_branch_name == {"audit_branch_a", "audit_branch_b"}

\* f"{catalog_name}.{database_name}.{table_name}"
full_table_name(catalog_name, database_name, table_name) ==
    <<catalog_name, database_name>> \o table_name

\* The table a Spark statement addresses by `name` in `session`: a one-part name
\* is looked up in the session's current catalog and database; a longer name is
\* catalog, namespace, table.  The Glue catalog has one-level namespaces: with
\* glue.skip-name-validation = true (line 14) it takes the first level of a
\* longer namespace as the database, without it no table has such a name.
Resolve(session, name) ==
    IF Len(name) = 1 THEN session.current \o name
    ELSE IF session.skip_name_validation
         THEN <<name[1], name[2], name[Len(name)]>>
         ELSE name

\* The arguments wap_append is called with, and the session it runs in.
\*  - the current database is the table's database, table_name is the bare name;
\*  - the call of main(): table_name is the fully qualified name, the session is
\*    as create_iceberg_glue_session leaves it (spark_catalog.default, name
\*    validation skipped);
\*  - the arguments of main() in a session that validates names;
\*  - table_name is the bare name, the current database is another database.
NoSession == [current |-> <<>>, skip_name_validation |-> FALSE]

CallShapes ==
    { [session |-> [current |-> <<"glue_catalog", "athena_iceberg_test">>,
                    skip_name_validation |-> TRUE],
       catalog_name |-> "glue_catalog", database_name |-> "athena_iceberg_test",
       table_name |-> <<"my_iceberg_table">>],
      [session |-> [current |-> <<"spark_catalog", "default">>,
                    skip_name_validation |-> TRUE],
       catalog_name |-> "glue_catalog", database_name |-> "athena_iceberg_test",
       table_name |-> <<"glue_catalog", "athena_iceberg_test", "my_iceberg_table">>],
      [session |-> [current |-> <<"spark_catalog", "default">>,
                    skip_name_validation |-> FALSE],
       catalog_name |-> "glue_catalog", database_name |-> "athena_iceberg_test",
       table_name |-> <<"glue_catalog", "athena_iceberg_test", "my_iceberg_table">>],
      [session |-> [current |-> <<"glue_catalog", "other_db">>,
                    skip_name_validation |-> TRUE],
       catalog_name |-> "glue_catalog", database_name |-> "athena_iceberg_test",
       table_name |-> <<"my_iceberg_table">>] }

----------------------------------------------------------------------------
(* Versions.  A version of a table is the sequence of the batches appended *)
(* to reach it; a batch is one snapshot: its id, its writer (a run slot,   *)
(* or 0 for a writer that is no wap_append call) and its number of rows.   *)

Runs == {1, 2}
Other == 0

RECURSIVE RowCount(_)
\* DataFrame.count() of a version: the rows of all its batches
RowCount(v) == IF v = <<>> THEN 0 ELSE v[1].n + RowCount(Tail(v))

\* a is an ancestor of (or equal to) b
IsAncestor(a, b) == Len(a) <= Len(b) /\ SubSeq(b, 1, Len(a)) = a

BatchIds(v) == { v[i].id : i \in 1..Len(v) }

----------------------------------------------------------------------------
(* The locals of one wap_append call *)

\* The error a statement raises is named by the statement.
Ops == {"set", "refs", "drop_if_exists", "create", "write", "read",
        "fast_forward", "drop", "unset"}

IdleRun ==
    [ pc |-> "idle",
      session |-> NoSession, catalog_name |-> "", database_name |-> "",
      table_name |-> <<>>,
      data_df |-> 0,                 \* data_df.count()
      audit_branch_name |-> "",
      audit_passed |-> "none",       \* "none" until line 106, then "passed" or "failed"
      error |-> "none",              \* the exception propagating out of the try block
      result |-> "none",             \* how the call ended: "returned" or the error raised
      issued |-> {},                 \* the catalog statements the call has issued
      pre_main |-> <<>>,             \* main of the table when the call started
      base |-> <<>>,                 \* the version the audit branch was created at
      batch |-> 0,                   \* snapshot id of the payload written
      audit_ver |-> <<>>,            \* version of the audit branch read for the audit
      ff_main |-> <<>>,              \* version of main when the fast-forward was issued
      published |-> FALSE,           \* the fast-forward of this call succeeded
      interfered |-> FALSE ]         \* another writer committed to main since the call started

\* The table the statements written with {table_name} address (lines 83-139)
WorkTable(r) == Resolve(run[r].session, run[r].table_name)

\* The table the statements written with {full_table_name} address (lines 75, 79)
FullTable(r) ==
    Resolve(run[r].session,
            full_table_name(run[r].catalog_name, run[r].database_name, run[r].table_name))

\* The table CALL {catalog_name}.system.fast_forward('{table_name}', ...) addresses:
\* a one-part name is looked up in the current database when the procedure's
\* catalog is the current catalog.
CallTable(r) ==
    IF Len(run[r].table_name) = 1
    THEN IF run[r].session.current[1] = run[r].catalog_name
         THEN run[r].session.current \o run[r].table_name
         ELSE <<run[r].catalog_name>> \o run[r].table_name
    ELSE Resolve(run[r].session, run[r].table_name)

HasBranch(t, b) == t \in Tables /\ b \in DOMAIN refs[t]

\* a drop that removes every branch but main
WithoutBranch_All(t, b) == [x \in {"main"} |-> refs[t][x]]

\* The refs of table t after ALTER TABLE ... DROP BRANCH b (lines 83, 123)
WithoutBranch(t, b) == [x \in (DOMAIN refs[t]) \ {b} |-> refs[t][x]]

\* a create that starts the branch at the empty version
WithBranch_Empty(t, b) == (b :> <<>>) @@ refs[t]

\* The refs of table t after ALTER TABLE ... CREATE BRANCH b (line 84): the new
\* branch points at the current version of main.
WithBranch(t, b) == (b :> refs[t]["main"]) @@ refs[t]

\* a SET that writes 'false'
SetTblProperty_Off(t) == [prop EXCEPT ![t] = FALSE]

\* SET TBLPROPERTIES ('write.wap.enabled'='true') on table t (line 75)
SetTblProperty(t) == [prop EXCEPT ![t] = TRUE]

\* an except clause that swallows a failed SET and goes on with the next statement
OnError_GoesOn(op) == IF op = "set" THEN "refs" ELSE "finally"

\* an except clause that swallows a failed write and goes on to the audit
OnError_SkipsWrite(op) == IF op = "write" THEN "read" ELSE "finally"

\* try/except/finally of lines 67, 131-136: an exception raised by a statement of
\* the try block is re-raised by the except clause and control goes to the
\* finally block.
OnError(op) == "finally"

\* A statement `op` of the try block raised.
Raise(r, op) ==
    run' = [run EXCEPT ![r].issued = @ \cup {op},
                       ![r].error = op,
                       ![r].pc = OnError(op)]

\* A statement `op` of the try block completed; control goes to `next`.
Done(r, op, next) ==
    run' = [run EXCEPT ![r].issued = @ \cup {op}, ![r].pc = next]

----------------------------------------------------------------------------
(* The audit, lines 104-108 *)

audit_case_1(branch_count, data_count) == branch_count = data_count

audit_case_2(branch_count) == branch_count > 0

audit_passed(branch_count, data_count) ==
    audit_case_1(branch_count, data_count) /\ audit_case_2(branch_count)

\* a publish decision that ignores the verdict
Publishes_Always(verdict) == verdict \in {"passed", "failed"}

\* `if audit_passed:` (line 108): the branch is published only after a passed audit
Publishes(verdict) == verdict = "passed"

\* a fast-forward that moves main whatever its version is
CanFastForward_Any(main, branch) == Len(main) >= 0

\* CALL system.fast_forward(table, 'main', branch): main may move to the branch's
\* version only if main is an ancestor of it.
CanFastForward(main, branch) == IsAncestor(main, branch)

\* a fast-forward that leaves main where it was
fast_forward_Stays(main, branch) == main

\* The version of main after fast_forward(table, 'main', branch) (line 113)
fast_forward(main, branch) == branch

\* What the caller of wap_append receives (lines 131-139): an exception raised in
\* the finally block replaces the exception that was propagating.
Raised(error, cleanup_failed) ==
    IF cleanup_failed THEN "unset"
    ELSE IF error = "none" THEN "returned" ELSE error

----------------------------------------------------------------------------
(* Initial state: both tables exist with an empty main branch (line 47) and *)
(* without the property; no call is running.                               *)

Init ==
    /\ prop = [t \in Tables |-> FALSE]
    /\ refs = [t \in Tables |-> [b \in {"main"} |-> <<>>]]
    /\ nextId = 0
    /\ repeats = 0
    /\ run = [r \in Runs |-> IdleRun]

----------------------------------------------------------------------------
(* wap_append, statement by statement.  Every catalog call may fail with a *)
(* transport or service error (`fails`), and fails when the table or       *)
(* branch it addresses does not exist.                                     *)

\* wap_append(spark, catalog_name, database_name, table_name, data_df) is called
\* (line 63); full_table_name is computed (line 65).
Call(r) ==
    /\ run[r].pc = "idle"
    /\ \E shape \in CallShapes, n \in 0..MaxRows :
          LET t == Resolve(shape.session, shape.table_name) IN
          run' = [run EXCEPT ![r] =
                    [IdleRun EXCEPT !.pc = "set",
                                    !.session = shape.session,
                                    !.catalog_name = shape.catalog_name,
                                    !.database_name = shape.database_name,
                                    !.table_name = shape.table_name,
                                    !.data_df = n,
                                    !.pre_main = IF t \in Tables
                                                 THEN refs[t]["main"] ELSE <<>>]]
    /\ UNCHANGED <<prop, refs, nextId, repeats>>

\* line 75: ALTER TABLE {full_table_name} SET TBLPROPERTIES ('write.wap.enabled'='true')
SetProperty(r) ==
    /\ run[r].pc = "set"
    /\ \E fails \in BOOLEAN :
          IF fails \/ FullTable(r) \notin Tables
          THEN Raise(r, "set") /\ UNCHANGED prop
          ELSE /\ prop' = SetTblProperty(FullTable(r))
               /\ Done(r, "set", "refs")
    /\ UNCHANGED <<refs, nextId, repeats>>

\* line 79: SELECT * FROM {full_table_name}.refs, shown and not used
ShowRefs(r) ==
    /\ run[r].pc = "refs"
    /\ \E fails \in BOOLEAN :
          IF fails \/ FullTable(r) \notin Tables
          THEN Raise(r, "refs")
          ELSE Done(r, "refs", "drop_if_exists")
    /\ UNCHANGED <<prop, refs, nextId, repeats>>

\* lines 82-83: audit_branch_name = generate_branch_name(prefix="audit_branch");
\* ALTER TABLE {table_name} DROP BRANCH IF EXISTS {audit_branch_name}
DropBranchIfExists(r) ==
    /\ run[r].pc = "drop_if_exists"
    /\ \E name \in generate_branch_name, fails \in BOOLEAN :
          IF fails \/ WorkTable(r) \notin Tables
          THEN /\ run' = [run EXCEPT ![r].audit_branch_name = name,
                                     ![r].issued = @ \cup {"drop_if_exists"},
                                     ![r].error = "drop_if_exists",
                                     ![r].pc = OnError("drop_if_exists")]
               /\ UNCHANGED refs
          ELSE /\ refs' = [refs EXCEPT ![WorkTable(r)] = WithoutBranch(WorkTable(r), name)]
               /\ run' = [run EXCEPT ![r].audit_branch_name = name,
                                     ![r].issued = @ \cup {"drop_if_exists"},
                                     ![r].pc = "create"]
    /\ UNCHANGED <<prop, nextId, repeats>>

\* line 84: ALTER TABLE {table_name} CREATE BRANCH {audit_branch_name}: the branch
\* is created at the current version of main; fails if the branch exists.
CreateBranch(r) ==
    /\ run[r].pc = "create"
    /\ LET t == WorkTable(r)
           b == run[r].audit_branch_name IN
       \E fails \in BOOLEAN :
          IF fails \/ t \notin Tables \/ HasBranch(t, b)
          THEN Raise(r, "create") /\ UNCHANGED refs
          ELSE /\ refs' = [refs EXCEPT ![t] = WithBranch(t, b)]
               /\ run' = [run EXCEPT ![r].issued = @ \cup {"create"},
                                     ![r].base = refs[t]["main"],
                                     ![r].pc = "write"]
    /\ UNCHANGED <<prop, nextId, repeats>>

\* lines 85-89: data_df.write.format("iceberg").mode("append")
\*              .option("branch", audit_branch_name).save(path=table_name):
\* one new snapshot with the rows of data_df on the audit branch (also for an
\* empty data_df); the write fails if the branch does not exist.
Write(r) ==
    /\ run[r].pc = "write"
    /\ LET t == WorkTable(r)
           b == run[r].audit_branch_name IN
       \/ /\ Raise(r, "write")
          /\ UNCHANGED <<refs, nextId>>
       \/ /\ HasBranch(t, b)
          /\ nextId < MaxSnap
          /\ nextId' = nextId + 1
          /\ refs' = [refs EXCEPT ![t][b] =
                        Append(@, [id |-> nextId + 1, by |-> r, n |-> run[r].data_df])]
          /\ run' = [run EXCEPT ![r].issued = @ \cup {"write"},
                                ![r].batch = nextId + 1,
                                ![r].pc = "read"]
    /\ UNCHANGED <<prop, repeats>>

\* lines 100-108: branch_df = spark.read...option("branch", audit_branch_name)
\* .load(path=table_name); the two audit cases; the publish decision.
Audit(r) ==
    /\ run[r].pc = "read"
    /\ LET t == WorkTable(r)
           b == run[r].audit_branch_name IN
       \E fails \in BOOLEAN :
          IF fails \/ ~HasBranch(t, b)
          THEN Raise(r, "read")
          ELSE LET branch_df == refs[t][b]
                   verdict == IF audit_passed(RowCount(branch_df), run[r].data_df)
                              THEN "passed" ELSE "failed" IN
               run' = [run EXCEPT ![r].issued = @ \cup {"read"},
                                  ![r].audit_ver = branch_df,
                                  ![r].audit_passed = verdict,
                                  ![r].pc = IF Publishes(verdict)
                                            THEN "fast_forward" ELSE "finally"]
    /\ UNCHANGED <<prop, refs, nextId, repeats>>

\* line 113: CALL {catalog_name}.system.fast_forward('{table_name}', 'main',
\*                                                   '{audit_branch_name}')
FastForward(r) ==
    /\ run[r].pc = "fast_forward"
    /\ LET t == CallTable(r)
           b == run[r].audit_branch_name IN
       \E fails \in BOOLEAN :
          IF fails \/ ~HasBranch(t, b) \/ ~CanFastForward(refs[t]["main"], refs[t][b])
          THEN /\ run' = [run EXCEPT ![r].issued = @ \cup {"fast_forward"},
                                     ![r].ff_main = IF t \in Tables
                                                    THEN refs[t]["main"] ELSE <<>>,
                                     ![r].error = "fast_forward",
                                     ![r].pc = OnError("fast_forward")]
               /\ UNCHANGED refs
          ELSE /\ refs' = [refs EXCEPT ![t]["main"] = fast_forward(@, refs[t][b])]
               /\ run' = [run EXCEPT ![r].issued = @ \cup {"fast_forward"},
                                     ![r].ff_main = refs[t]["main"],
                                     ![r].published = TRUE,
                                     ![r].pc = "drop"]
    /\ UNCHANGED <<prop, nextId, repeats>>

\* line 123: ALTER TABLE {table_name} DROP BRANCH {audit_branch_name}
DropBranch(r) ==
    /\ run[r].pc = "drop"
    /\ LET t == WorkTable(r)
           b == run[r].audit_branch_name IN
       \E fails \in BOOLEAN :
          IF fails \/ ~HasBranch(t, b)
          THEN Raise(r, "drop") /\ UNCHANGED refs
          ELSE /\ refs' = [refs EXCEPT ![t] = WithoutBranch(t, b)]
               /\ Done(r, "drop", "finally")
    /\ UNCHANGED <<prop, nextId, repeats>>

\* lines 136-139: finally: ALTER TABLE {table_name} UNSET TBLPROPERTIES
\* ('write.wap.enabled'); then the call returns or raises.
Finally(r) ==
    /\ run[r].pc = "finally"
    /\ \E fails \in BOOLEAN :
          LET cleanup_failed == fails \/ WorkTable(r) \notin Tables IN
          /\ prop' = IF cleanup_failed THEN prop
                     ELSE [prop EXCEPT ![WorkTable(r)] = FALSE]
          /\ run' = [run EXCEPT ![r].issued = @ \cup {"unset"},
                                ![r].result = Raised(run[r].error, cleanup_failed),
                                ![r].pc = "done"]
    /\ UNCHANGED <<refs, nextId, repeats>>

\* The caller has taken the result and is about to call wap_append again.
Return(r) ==
    /\ run[r].pc = "done"
    /\ repeats < MaxRepeats
    /\ repeats' = repeats + 1
    /\ run' = [run EXCEPT ![r] = IdleRun]
    /\ UNCHANGED <<prop, refs, nextId>>

\* Another writer of the table commits one row to main.
OtherWriter(t) ==
    /\ nextId < MaxSnap
    /\ nextId' = nextId + 1
    /\ refs' = [refs EXCEPT ![t]["main"] =
                  Append(@, [id |-> nextId + 1, by |-> Other, n |-> 1])]
    /\ run' = [r \in Runs |->
                 IF run[r].pc # "idle" /\ WorkTable(r) = t
                 THEN [run[r] EXCEPT !.interfered = TRUE] ELSE run[r]]
    /\ UNCHANGED <<prop, repeats>>

wap_append(r) ==
    \/ Call(r)
    \/ SetProperty(r)
    \/ ShowRefs(r)
    \/ DropBranchIfExists(r)
    \/ CreateBranch(r)
    \/ Write(r)
    \/ Audit(r)
    \/ FastForward(r)
    \/ DropBranch(r)
    \/ Finally(r)

\* One caller: wap_append calls one after the other, and other writers.
Next ==
    \/ wap_append(1)
    \/ Return(1)
    \/ \E t \in Tables : OtherWriter(t)

Spec == Init /\ [][Next]_vars

\* Two callers, one call each: the two calls interleave statement by statement.
NextConc ==
    \E r \in Runs : wap_append(r)

SpecConc == Init /\ [][NextConc]_vars

----------------------------------------------------------------------------
(* Shorthands of the properties *)

Active(r) == run[r].pc \notin {"idle", "done"}

Ended(r) == run[r].pc = "done"

Main(t) == refs[t]["main"]

\* The payload of the call in slot r is readable on main of some table.
PayloadOnMain(r) ==
    /\ run[r].batch # 0
    /\ \E t \in Tables : run[r].batch \in BatchIds(Main(t))

\* This step is a commit of another writer to main of t.
OtherCommit(t) ==
    /\ Len(refs'[t]["main"]) = Len(Main(t)) + 1
    /\ SubSeq(refs'[t]["main"], 1, Len(Main(t))) = Main(t)
    /\ refs'[t]["main"][Len(Main(t)) + 1].by = Other

\* This step is the fast-forward of the call in slot r on table t.
FastForwardStep(r, t) ==
    /\ run[r].pc = "fast_forward"
    /\ run'[r].pc = "drop"
    /\ CallTable(r) = t

----------------------------------------------------------------------------
\* C1: the payload of a call is readable on main only if the audit of that call
\* has returned passed; main changes only by the fast-forward of a call whose
\* audit passed (or by another writer), and the fast-forward moves main in one
\* step from the version it had to the version that was audited, so a reader of
\* main sees the pre-publish version or the whole audited batch.
C1_PayloadOnlyAfterPassedAudit ==
    /\ [](\A r \in Runs : PayloadOnMain(r) => run[r].audit_passed = "passed")
    /\ [][\A t \in Tables :
            refs'[t]["main"] # Main(t) =>
               \/ OtherCommit(t)
               \/ \E r \in Runs :
                     /\ FastForwardStep(r, t)
                     /\ run[r].audit_passed = "passed"
                     /\ refs'[t]["main"] = run[r].audit_ver
                     /\ refs'[t]["main"] = Append(run[r].base,
                                                  [id |-> run[r].batch, by |-> r,
                                                   n |-> run[r].data_df])]_vars

\* a call has published its payload: it is on main and the call goes on to drop
C1_Witness ==
    \E r \in Runs :
       /\ PayloadOnMain(r)
       /\ run[r].published
       /\ run[r].audit_passed = "passed"
       /\ run[r].data_df > 0

----------------------------------------------------------------------------
AuditBranch(r) == run[r].audit_branch_name

\* The version the audit branch of the call in slot r has after its write
Written(r) ==
    Append(run[r].base, [id |-> run[r].batch, by |-> r, n |-> run[r].data_df])

\* The cleanup statement of the call in slot r was executed and did not fail.
CleanupDone(r) == Ended(r) /\ run[r].result # "unset"

\* C2: after a call has returned or raised, and its unset did not fail, the
\* property write.wap.enabled is not set on the table the call addressed.
C2_PropertyUnsetAfterCall ==
    \A r \in Runs :
       CleanupDone(r) =>
          \A t \in Tables : t \in {FullTable(r), WorkTable(r)} => ~prop[t]

\* C3 as stated: whenever the verdict is passed, after the call main is the
\* audited version and the audit branch is gone.
C3_AsStated ==
    \A r \in Runs :
       (Ended(r) /\ run[r].audit_passed = "passed") =>
          /\ Main(WorkTable(r)) = run[r].audit_ver
          /\ ~HasBranch(WorkTable(r), AuditBranch(r))

\* C3, amended: if the verdict is passed and the fast-forward succeeds, the
\* fast-forward sets main to exactly the version the audit branch had when it
\* was read for the audit, and main keeps that version until the call ends
\* unless another writer commits on top of it; if the drop of the audit branch
\* succeeds as well, the audit branch does not exist when the call ends.
C3_PublishedVersionIsAudited ==
    /\ [][\A r \in Runs, t \in Tables :
            FastForwardStep(r, t) =>
               /\ run[r].audit_passed = "passed"
               /\ refs'[t]["main"] = run[r].audit_ver]_vars
    /\ [](\A r \in Runs :
            (Ended(r) /\ run[r].audit_passed = "passed" /\ run[r].published) =>
               /\ IsAncestor(run[r].audit_ver, Main(WorkTable(r)))
               /\ ~run[r].interfered => Main(WorkTable(r)) = run[r].audit_ver
               /\ run[r].error = "none" => ~HasBranch(WorkTable(r), AuditBranch(r)))

\* a call with a passed audit has ended after a successful fast-forward and drop
C3_Witness ==
    \E r \in Runs :
       /\ Ended(r)
       /\ run[r].audit_passed = "passed"
       /\ run[r].published
       /\ run[r].error = "none"
       /\ Main(WorkTable(r)) = run[r].audit_ver
       /\ RowCount(run[r].audit_ver) > 0
       /\ ~HasBranch(WorkTable(r), AuditBranch(r))

\* C4: if the verdict is failed, then when the call has ended no fast-forward
\* and no drop of the audit branch was issued, main does not hold the payload
\* and is the version it was before the call (unless another writer committed
\* to it meanwhile, and then it extends that version), and the audit branch
\* exists and holds the version it was created at plus the payload.
C4_RejectedLeavesMainAndKeepsBranch ==
    \A r \in Runs :
       (Ended(r) /\ run[r].audit_passed = "failed") =>
          /\ "fast_forward" \notin run[r].issued
          /\ "drop" \notin run[r].issued
          /\ ~run[r].published
          /\ ~PayloadOnMain(r)
          /\ IsAncestor(run[r].pre_main, Main(WorkTable(r)))
          /\ ~run[r].interfered => Main(WorkTable(r)) = run[r].pre_main
          /\ HasBranch(WorkTable(r), AuditBranch(r))
          /\ refs[WorkTable(r)][AuditBranch(r)] = Written(r)

\* a call whose audit failed has ended, with rows written to its branch
C4_Witness ==
    \E r \in Runs :
       /\ Ended(r)
       /\ run[r].audit_passed = "failed"
       /\ run[r].data_df > 0
       /\ HasBranch(WorkTable(r), AuditBranch(r))
       /\ RowCount(refs[WorkTable(r)][AuditBranch(r)]) > RowCount(Main(WorkTable(r)))

\* No catalog call of the ended call in slot r failed.
NoCallFailed(r) == Ended(r) /\ run[r].error = "none" /\ run[r].result = "returned"

\* C5: a payload of n >= 1 rows, no other writer and no failing catalog call: the
\* call ends Published, whatever main held before; the audit branch is absent
\* and main has n rows more than before the call.
C5_NonEmptyPayloadIsPublished ==
    \A r \in Runs :
       (NoCallFailed(r) /\ run[r].data_df >= 1 /\ ~run[r].interfered) =>
          /\ run[r].audit_passed = "passed"
          /\ run[r].published
          /\ ~HasBranch(WorkTable(r), AuditBranch(r))
          /\ RowCount(Main(WorkTable(r))) = RowCount(run[r].pre_main) + run[r].data_df

\* Main was advanced by another writer between the creation of the audit branch
\* of the call in slot r and the fast-forward the call issued.
MainMovedBeforeFastForward(r) ==
    /\ "fast_forward" \in run[r].issued
    /\ run[r].ff_main # run[r].base

\* C6: if main was advanced by another writer between the creation of the audit
\* branch and the fast-forward, the fast-forward fails, the caller receives the
\* fast-forward error, main keeps the other writer's version and the audit branch
\* is not dropped.
C6_ConflictSurfacesAndKeepsBranch ==
    \A r \in Runs :
       (Ended(r) /\ MainMovedBeforeFastForward(r)) =>
          /\ ~run[r].published
          /\ run[r].error = "fast_forward"
          /\ run[r].result = "fast_forward"
          /\ "drop" \notin run[r].issued
          /\ ~PayloadOnMain(r)
          /\ IsAncestor(run[r].ff_main, Main(WorkTable(r)))
          /\ HasBranch(WorkTable(r), AuditBranch(r))
          /\ refs[WorkTable(r)][AuditBranch(r)] = Written(r)

\* C8: if the append to the audit branch fails, no fast-forward and no drop of
\* the audit branch is issued afterwards, the audit branch created by line 84
\* exists when the call ends, and the caller receives the write error.
C8_WriteFailureKeepsBranchAndSurfaces ==
    \A r \in Runs :
       (Ended(r) /\ run[r].error = "write") =>
          /\ "fast_forward" \notin run[r].issued
          /\ "drop" \notin run[r].issued
          /\ "read" \notin run[r].issued
          /\ HasBranch(WorkTable(r), AuditBranch(r))
          /\ refs[WorkTable(r)][AuditBranch(r)] = run[r].base
          /\ run[r].result = "write"

\* C9: when an error of the try block is propagating, the caller receives that
\* error, also when the cleanup unset fails.
C9_PrimaryErrorIsNotReplaced ==
    \A r \in Runs :
       (Ended(r) /\ run[r].error # "none") => run[r].result = run[r].error

\* C10 as stated: if the SET of the property fails, no further catalog statement
\* is issued, the unset included.
C10_AsStated ==
    \A r \in Runs :
       run[r].error = "set" => run[r].issued = {"set"}

\* C10, amended: if the SET of the property fails, the call issues no branch
\* drop or create, no write, no read and no fast-forward;
\* the one catalog statement it still issues is the cleanup unset of the
\* finally block, and then it raises.
C10_FailedSetOnlyRunsCleanup ==
    \A r \in Runs :
       run[r].error = "set" =>
          /\ run[r].issued \subseteq {"set", "unset"}
          /\ run[r].pc \in {"finally", "done"}
          /\ run[r].audit_branch_name = ""
          /\ Ended(r) => /\ "unset" \in run[r].issued
                         /\ run[r].result \in {"set", "unset"}

\* a call whose SET failed has ended after its cleanup
C10_Witness ==
    \E r \in Runs :
       /\ Ended(r)
       /\ run[r].error = "set"
       /\ run[r].issued = {"set", "unset"}
       /\ run[r].result = "set"

----------------------------------------------------------------------------
(* Two interleaved calls *)

\* The two calls use distinct audit branch names.
DistinctNames == run[1].audit_branch_name # run[2].audit_branch_name

\* The audit branch of the call in slot r was created (line 84 completed).
Created(r) == "create" \in run[r].issued /\ run[r].error # "create"

\* The drop of line 123 of the call in slot r completed.
Dropped(r) == "drop" \in run[r].issued /\ run[r].error # "drop"

\* The audit branch of the call in slot r holds what that call alone put there.
Isolated(r) ==
    /\ (Created(r) /\ run[r].batch = 0) =>
          /\ HasBranch(WorkTable(r), AuditBranch(r))
          /\ refs[WorkTable(r)][AuditBranch(r)] = run[r].base
    /\ (run[r].batch # 0 /\ ~Dropped(r)) =>
          /\ HasBranch(WorkTable(r), AuditBranch(r))
          /\ refs[WorkTable(r)][AuditBranch(r)] = Written(r)
    /\ run[r].audit_passed # "none" => run[r].audit_ver = Written(r)

\* C7: two interleaved calls with distinct audit branch names.  Each call's
\* audit branch holds only what that call put there, so the calls meet only at
\* the fast-forward; if both branches were created from the same version of
\* main of the same table and both were written, at most one fast-forward
\* succeeds; a call whose fast-forward fails leaves main as it is, does not
\* publish its payload and goes to cleanup without another fast-forward; and
\* every step leaves main an extension of what it was, so rows published by the
\* winner are never lost.
C7_ConcurrentRunsContendOnlyAtFastForward ==
    /\ [](DistinctNames =>
            /\ \A r \in Runs : Isolated(r)
            /\ ( /\ run[1].batch # 0 /\ run[2].batch # 0
                 /\ WorkTable(1) = WorkTable(2)
                 /\ run[1].base = run[2].base )
               => ~(run[1].published /\ run[2].published)
            /\ \A r \in Runs :
                  run[r].error = "fast_forward" =>
                     /\ ~run[r].published
                     /\ ~PayloadOnMain(r)
                     /\ run[r].pc \in {"finally", "done"})
    /\ [][/\ \A t \in Tables : IsAncestor(Main(t), refs'[t]["main"])
          /\ \A r \in Runs :
                (run[r].pc = "fast_forward" /\ run'[r].error = "fast_forward")
                   => refs' = refs]_vars

\* both calls branched from the same main, both audits passed, one call
\* published and the other one's fast-forward failed on the moved main
C7_Witness ==
    /\ DistinctNames
    /\ Ended(1) /\ Ended(2)
    /\ WorkTable(1) = WorkTable(2)
    /\ run[1].base = run[2].base
    /\ run[1].audit_passed = "passed" /\ run[2].audit_passed = "passed"
    /\ \E w, l \in Runs :
          /\ run[w].published /\ run[w].error = "none"
          /\ run[l].error = "fast_forward"
          /\ run[l].ff_main = Written(w)
          /\ Main(WorkTable(w)) = Written(w)

----------------------------------------------------------------------------
\* The call in slot r has set the property and has not run its cleanup yet.
PropertyWindow(r) ==
    /\ "set" \in run[r].issued
    /\ run[r].error # "set"
    /\ run[r].pc # "done"

\* Another call has completed its cleanup unset on the table the call in slot r
\* set the property on.
UnsetByOther(r) ==
    \E q \in Runs \ {r} : CleanupDone(q) /\ WorkTable(q) = FullTable(r)

\* C11 as stated: from the SET of a call until that call starts its cleanup the
\* property is set on the table, whatever other calls do in between.
C11_AsStated ==
    \A r \in Runs : PropertyWindow(r) => prop[FullTable(r)]

\* C11, amended: from the SET of a call until that call starts its cleanup the
\* property is set on the table the SET addressed, as long as no other call has
\* completed its cleanup unset on that table; the property is unset only by the
\* cleanup statement of a call (the last writer wins).
C11_PropertySetUntilSomeCleanup ==
    /\ [](\A r \in Runs :
            (PropertyWindow(r) /\ ~UnsetByOther(r)) => prop[FullTable(r)])
    /\ [][\A t \in Tables :
            (prop[t] /\ ~prop'[t]) =>
               \E q \in Runs : /\ run[q].pc = "finally"
                               /\ run'[q].pc = "done"
                               /\ WorkTable(q) = t]_vars

\* a call is between its SET and its cleanup, the other call is still running,
\* and the property is set
C11_Witness ==
    \E r \in Runs :
       /\ PropertyWindow(r)
       /\ run[r].pc = "finally"
       /\ \E q \in Runs \ {r} : Active(q) /\ "set" \in run[q].issued
       /\ prop[FullTable(r)]

----------------------------------------------------------------------------
\* C12: a call that has advanced main has ended Published: its audit passed and
\* it returned without an error; a call that ended Rejected or raised an error
\* (the drop after the fast-forward included) has not advanced main.
C12_MainAdvancesOnlyOnSuccess ==
    \A r \in Runs :
       (Ended(r) /\ (run[r].published \/ PayloadOnMain(r))) =>
          /\ run[r].audit_passed = "passed"
          /\ run[r].error = "none"
          /\ run[r].result = "returned"

----------------------------------------------------------------------------
\* C13: for an empty payload, whatever main held before, the non-empty check
\* (audit_case_2) fails and the call ends Rejected: main is unchanged and the
\* audit branch exists and holds 0 rows.
C13_EmptyPayloadIsRejected ==
    \A r \in Runs :
       (Ended(r) /\ run[r].data_df = 0 /\ run[r].audit_passed # "none") =>
          /\ ~audit_case_2(RowCount(run[r].audit_ver))
          /\ run[r].audit_passed = "failed"
          /\ ~run[r].published
          /\ ~run[r].interfered => Main(WorkTable(r)) = run[r].pre_main
          /\ HasBranch(WorkTable(r), AuditBranch(r))
          /\ RowCount(refs[WorkTable(r)][AuditBranch(r)]) = 0

----------------------------------------------------------------------------
\* This step is a step of the call in slot r.
StepOf(r) == run'[r].pc # run[r].pc

\* C14: when CREATE BRANCH fails because the generated name exists, the call does
\* not fail on that first collision: it goes back to generate another name and
\* to create the branch again.
C14_CollisionIsRetried ==
    [][\A r \in Runs :
         ( /\ StepOf(r)
           /\ run[r].pc = "create"
           /\ HasBranch(WorkTable(r), AuditBranch(r)) )
         => /\ run'[r].pc \in {"drop_if_exists", "create"}
            /\ run'[r].error = "none"]_vars

\* The call in slot r ended with the verdict failed and without any failure.
EndedRejected(r) == NoCallFailed(r) /\ run[r].audit_passed = "failed"

\* The call in slot r ended with the verdict passed, published, without failure.
EndedPublished(r) ==
    NoCallFailed(r) /\ run[r].audit_passed = "passed" /\ run[r].published

\* C15: a call whose verdict is failed ends without raising, and what it
\* reports to its caller differs from what a call that published reports.
C15_RejectedIsReportedApart ==
    \A r \in Runs :
       /\ (Ended(r) /\ run[r].audit_passed = "failed" /\ run[r].error = "none"
             /\ CleanupDone(r)) => run[r].result = "returned"
       /\ \A q \in Runs :
             (EndedRejected(r) /\ EndedPublished(q)) => run[r].result # run[q].result

\* C16: every catalog operation of one call addresses the same table, whatever
\* catalog_name, database_name and table_name are (the arguments of main()
\* included); the property is unset on the table it was set on.
C16_OneTablePerCall ==
    \A r \in Runs :
       /\ ("set" \in run[r].issued /\ "drop_if_exists" \in run[r].issued) =>
             FullTable(r) = WorkTable(r)
       /\ ("set" \in run[r].issued /\ "fast_forward" \in run[r].issued) =>
             CallTable(r) = FullTable(r)
       /\ ("set" \in run[r].issued /\ "unset" \in run[r].issued) =>
             FullTable(r) = WorkTable(r)

\* The call in slot q has created its audit branch on table t under name b
\* and has not dropped it (line 123).
OwnsBranch(q, t, b) ==
    /\ Created(q) /\ ~Dropped(q)
    /\ WorkTable(q) = t
    /\ AuditBranch(q) = b

\* C17: no audit branch is shared by two calls: two calls never hold the same
\* branch of the same table, and a step of one call never drops or rewrites a
\* branch that another call created and still holds.
C17_NoSharedAuditBranch ==
    /\ [](\A r, q \in Runs :
            (r # q /\ Created(r) /\ ~Dropped(r) /\ Created(q) /\ ~Dropped(q)
               /\ WorkTable(r) = WorkTable(q)) => AuditBranch(r) # AuditBranch(q))
    /\ [][\A r, q \in Runs : \A t \in Tables : \A b \in generate_branch_name :
            (r # q /\ StepOf(r) /\ OwnsBranch(q, t, b) /\ HasBranch(t, b)) =>
               /\ b \in DOMAIN refs'[t]
               /\ refs'[t][b] = refs[t][b]]_vars

\* The verdict of the call in slot r has been computed (line 106).
Audited(r) == run[r].audit_passed # "none"

\* C18: in every call the audit is evaluated once, after the write to the audit
\* branch has completed and before any fast-forward; from the end of the write
\* to the publish decision the call changes no table, and a verdict, once
\* computed, is not computed again within the call.
C18_AuditOnceAfterWriteBeforePublish ==
    /\ [](\A r \in Runs :
            /\ Audited(r) =>
                  /\ "write" \in run[r].issued
                  /\ run[r].batch # 0
                  /\ run[r].error \notin {"write", "read"}
                  /\ "read" \in run[r].issued
            /\ "fast_forward" \in run[r].issued => Audited(r)
            /\ run[r].pc = "read" => ~Audited(r) /\ "fast_forward" \notin run[r].issued)
    /\ [][\A r \in Runs :
            /\ (StepOf(r) /\ run[r].pc = "read") =>
                  /\ refs' = refs
                  /\ prop' = prop
                  /\ run'[r].pc \in {"fast_forward", "finally"}
            /\ (Audited(r) /\ run'[r].pc # "idle") =>
                  /\ run'[r].audit_passed = run[r].audit_passed
                  /\ run'[r].audit_ver = run[r].audit_ver
                  /\ run'[r].pc # "read"]_vars

\* C18 witness: a call wrote, audited once with the verdict passed, and then
\* fast-forwarded.
C18_Witness ==
    \E r \in Runs :
       /\ Audited(r)
       /\ run[r].batch # 0
       /\ "fast_forward" \in run[r].issued
       /\ run[r].published

\* Branch b of table t is an audit branch another call left behind: it is not
\* main and not the branch the call in slot r names.
RetainedFor(r, t, b) ==
    /\ HasBranch(t, b)
    /\ b # "main"
    /\ b # run[r].audit_branch_name

\* C19: a call that uses a fresh audit branch name leaves every audit branch
\* retained by an earlier call, and its rows, as they were; and main only ever
\* moves to a version that extends the version it had (it loses no row).
C19_RetryKeepsEarlierBranchAndMainOnlyGrows ==
    [][\A t \in Tables :
         /\ \A b \in generate_branch_name :
               (HasBranch(t, b) /\ b # run'[1].audit_branch_name) =>
                  /\ b \in DOMAIN refs'[t]
                  /\ refs'[t][b] = refs[t][b]
         /\ IsAncestor(refs[t]["main"], refs'[t]["main"])]_vars

\* C19 witness: a second call has written and ended while an audit branch an
\* earlier call wrote to, under another name, is still on the same table.
C19_Witness ==
    /\ repeats = 1
    /\ Ended(1)
    /\ run[1].batch # 0
    /\ \E b \in generate_branch_name :
          /\ RetainedFor(1, WorkTable(1), b)
          /\ \E i \in DOMAIN refs[WorkTable(1)][b] :
                /\ refs[WorkTable(1)][b][i].by = 1
                /\ refs[WorkTable(1)][b][i].id < run[1].batch

\* Batch id is on no branch of any table.
OnNoBranch(id) ==
    \A t \in Tables : \A b \in DOMAIN refs[t] : id \notin BatchIds(refs[t][b])

\* C20: when DROP BRANCH IF EXISTS and CREATE BRANCH of a call have completed,
\* the audit branch points at main's current version and so holds no batch that
\* main does not hold; the write then appends the payload to that version, so
\* the written branch is main's version at the create plus this payload.
C20_CreatedBranchIsCleanCopyOfMain ==
    [][\A r \in Runs :
         LET t == WorkTable(r)
             b == run[r].audit_branch_name IN
         /\ (run[r].pc = "create" /\ run'[r].pc = "write") =>
               /\ refs'[t][b] = refs'[t]["main"]
               /\ BatchIds(refs'[t][b]) \subseteq BatchIds(refs'[t]["main"])
               /\ run'[r].base = refs'[t]["main"]
         /\ (run[r].pc = "write" /\ run'[r].pc = "read") =>
               /\ refs[t][b] = run[r].base
               /\ refs'[t][b] = Append(run[r].base,
                                       [id |-> run'[r].batch, by |-> r, n |-> run[r].data_df])
               /\ ~run[r].interfered => refs[t][b] = refs[t]["main"]]_vars

\* C20 witness: a later call has dropped and re-created an audit branch; the
\* batch an earlier call wrote is on no branch any more, and the new branch is
\* at main's version.
C20_Witness ==
    /\ repeats = 1
    /\ run[1].pc = "write"
    /\ Created(1)
    /\ \E id \in 1..nextId : OnNoBranch(id)
    /\ refs[WorkTable(1)][AuditBranch(1)] = Main(WorkTable(1))

====
